---------------------------- MODULE Spec2Model ----------------------------
(***************************************************************************)
(* Brick breaker: the game state of src/components/BrickBreakerGame.tsx,   *)
(* its per-frame update (gameLoop) and its lifecycle and pointer handlers. *)
(*                                                                         *)
(* Numbers.  The program computes in IEEE doubles; the model computes in   *)
(* fixed point: every length, position and velocity is an integer count of *)
(* 1/Scale pixel.  Math.sin and Math.cos are computed by Bhaskara's        *)
(* rational approximation (exact at 0, pi/6, pi/2) and the product with   *)
(* the speed is rounded to the nearest unit.  Math.random() is k/RandSteps *)
(* for k in 0..RandSteps-1.                                                *)
(*                                                                         *)
(* React.  A setGameState(updater) call is applied at once and the         *)
(* component is rendered before the next event, so the gameState a handler *)
(* closes over is the current one.  The updater of gameLoop mutates the    *)
(* objects of prevState in place (newState = {...prevState} is a shallow   *)
(* copy); as prevState is dropped when the updater returns, the value      *)
(* returned is the next state.                                             *)
(***************************************************************************)
EXTENDS Integers, Sequences, FiniteSets, TLC

(***************************************************************************)
(* Bounds of the exploration.                                              *)
(***************************************************************************)
\* Active ticks explored from an initial state or a level advance.
MaxTicks == 160
\* Active ticks explored after a restart.
ReplayTicks == 10
\* Levels explored: nextLevel is not taken beyond it.
MaxLevel == 2
\* Math.random() takes the values k/RandSteps, k in 0..RandSteps-1.
RandSteps == 2

(***************************************************************************)
(* Number representation: units per pixel.                                 *)
(***************************************************************************)
Scale == 10

(***************************************************************************)
(* Game constants, in pixels as in the source.                             *)
(***************************************************************************)
GAME_WIDTH == 320
GAME_HEIGHT == 480
PADDLE_WIDTH == 70
PADDLE_HEIGHT == 10
BALL_SIZE == 12
BRICK_WIDTH == 28
BRICK_HEIGHT == 18
BRICK_ROWS == 7
BRICK_COLS == 10
BRICK_PADDING == 2
INITIAL_LIVES == 3

\* points of BRICK_CONFIGS, by row
BRICK_CONFIGS == <<50, 40, 30, 25, 20, 15, 10>>

\* n pixels in units
Px(n) == n * Scale

Max(a, b) == IF a >= b THEN a ELSE b
Min(a, b) == IF a <= b THEN a ELSE b
Abs(a) == IF a >= 0 THEN a ELSE -a

\* a / b rounded to the nearest integer (b > 0), halves away from zero
Round(a, b) == IF a >= 0 THEN (2 * a + b) \div (2 * b)
                         ELSE -((2 * (-a) + b) \div (2 * b))

\* Pointer positions in game coordinates (getGameCoordinate's results), in
\* pixels: left of the field, over its left part, over its middle, right of
\* the field.
PointerXs == {-40, 63, 160, 400}

(***************************************************************************)
(* Bricks                                                                  *)
(***************************************************************************)
NumBricks == BRICK_ROWS * BRICK_COLS

startX == (Px(GAME_WIDTH) - (BRICK_COLS * (Px(BRICK_WIDTH) + Px(BRICK_PADDING)) - Px(BRICK_PADDING))) \div 2

\* the brick pushed i-th (1-based) by the row/col loops
brickAt(i) ==
    LET row == (i - 1) \div BRICK_COLS
        col == (i - 1) % BRICK_COLS
    IN  [ id        |-> <<row, col>>,
          x         |-> startX + col * (Px(BRICK_WIDTH) + Px(BRICK_PADDING)),
          y         |-> Px(50) + row * (Px(BRICK_HEIGHT) + Px(BRICK_PADDING)),
          destroyed |-> FALSE,
          points    |-> BRICK_CONFIGS[(row % Len(BRICK_CONFIGS)) + 1] ]

initializeBricks == [i \in 1..NumBricks |-> brickAt(i)]

createInitialState(level) ==
    [ paddle       |-> [x |-> Px(GAME_WIDTH) \div 2 - Px(PADDLE_WIDTH) \div 2,
                        y |-> Px(GAME_HEIGHT) - Px(40)],
      ball         |-> [x |-> Px(GAME_WIDTH) \div 2, y |-> Px(GAME_HEIGHT) - Px(60)],
      ballVelocity |-> [x |-> 0, y |-> 0],
      bricks       |-> initializeBricks,
      score        |-> 0,
      lives        |-> INITIAL_LIVES,
      gameOver     |-> FALSE,
      gameWon      |-> FALSE,
      level        |-> level,
      paused       |-> FALSE,
      gameStarted  |-> FALSE ]


(***************************************************************************)
(* Collision detection                                                     *)
(***************************************************************************)
\* (variant: rectangles that touch collide)
checkCollisionTouching(obj1, obj2) ==
    /\ obj1.x <= obj2.x + obj2.width
    /\ obj1.x + obj1.width >= obj2.x
    /\ obj1.y <= obj2.y + obj2.height
    /\ obj1.y + obj1.height >= obj2.y

checkCollision(obj1, obj2) ==
    /\ obj1.x < obj2.x + obj2.width
    /\ obj1.x + obj1.width > obj2.x
    /\ obj1.y < obj2.y + obj2.height
    /\ obj1.y + obj1.height > obj2.y

\* the rectangle the game loop builds around the ball centre
ballRect(ball) ==
    [ x |-> ball.x - Px(BALL_SIZE) \div 2, y |-> ball.y - Px(BALL_SIZE) \div 2,
      width |-> Px(BALL_SIZE), height |-> Px(BALL_SIZE) ]

paddleRect(paddle) ==
    [ x |-> paddle.x, y |-> paddle.y,
      width |-> Px(PADDLE_WIDTH), height |-> Px(PADDLE_HEIGHT) ]

brickRect(brick) ==
    [ x |-> brick.x, y |-> brick.y,
      width |-> Px(BRICK_WIDTH), height |-> Px(BRICK_HEIGHT) ]

(***************************************************************************)
(* Math.sin, Math.cos of the angle pi * n / d, as a fraction <<num, den>>  *)
(* (Bhaskara: sin(pi t) ~ 16 t (1 - t) / (5 - 4 t (1 - t)), 0 <= t <= 1;   *)
(* sin is odd, cos(a) = sin(pi/2 - |a|) for |a| <= pi/2).                  *)
(***************************************************************************)
sinPi(n, d) ==
    LET m == Abs(n)
        num == 16 * m * (d - m)
        den == 5 * d * d - 4 * m * (d - m)
    IN  <<IF n >= 0 THEN num ELSE -num, den>>

cosPi(n, d) == sinPi(d - 2 * Abs(n), 2 * d)

\* maxAngle = Math.PI / MaxAngleDiv
MaxAngleDiv == 3

\* baseSpeed = 3 + level * 0.5, in units
baseSpeed(level) == Px(3) + (level * Scale) \div 2

\* (variant: the hit position is measured from the paddle's left edge)
paddleBounceFromLeft(offset, level) ==
    LET d == MaxAngleDiv * (Px(PADDLE_WIDTH) \div 2)
        o == offset + Px(PADDLE_WIDTH) \div 2
        s == sinPi(o, d)
        c == cosPi(o, d)
    IN  [ x |-> Round(s[1] * baseSpeed(level), s[2]),
          y |-> -Round(c[1] * baseSpeed(level), c[2]) ]

\* The velocity the paddle bounce assigns: hitPos = offset / (PADDLE_WIDTH / 2),
\* angle = hitPos * maxAngle, velocity = (sin(angle), -cos(angle)) * baseSpeed.
\* offset = ball.x - (paddle.x + PADDLE_WIDTH / 2), in units.
paddleBounce(offset, level) ==
    LET d == MaxAngleDiv * (Px(PADDLE_WIDTH) \div 2)
        s == sinPi(offset, d)
        c == cosPi(offset, d)
    IN  [ x |-> Round(s[1] * baseSpeed(level), s[2]),
          y |-> -Round(c[1] * baseSpeed(level), c[2]) ]

(***************************************************************************)
(* The brick loop: bricks.forEach in array order from brick i on, on the   *)
(* running state st (bricks, score, ballVelocity).  The ball does not move *)
(* in the loop, so the rectangle built around it in every iteration is the *)
(* one rectangle rect.                                                     *)
(***************************************************************************)
\* (variant: the brick is scored but not marked destroyed)
hitBrickNoMark(st, i) ==
    LET brick == st.bricks[i]
        dx == st.ball.x - (brick.x + Px(BRICK_WIDTH) \div 2)
        dy == st.ball.y - (brick.y + Px(BRICK_HEIGHT) \div 2)
    IN  [st EXCEPT !.score = st.score + brick.points,
                   !.ballVelocity =
                       IF Abs(dx) > Abs(dy)
                       THEN [x |-> -st.ballVelocity.x, y |-> st.ballVelocity.y]
                       ELSE [x |-> st.ballVelocity.x, y |-> -st.ballVelocity.y]]

\* (variant: the velocity is always reflected in y)
hitBrickFlipY(st, i) ==
    [st EXCEPT !.bricks[i].destroyed = TRUE,
               !.score = st.score + st.bricks[i].points,
               !.ballVelocity = [x |-> st.ballVelocity.x, y |-> -st.ballVelocity.y]]

\* (variant: the bricks destroyed before come back)
hitBrickRevive(st, i) ==
    LET hit == hitBrickNoMark(st, i)
    IN  [hit EXCEPT !.bricks = [j \in 1..Len(st.bricks) |->
                                   [st.bricks[j] EXCEPT !.destroyed = (j = i)]]]

hitBrick(st, i) ==
    LET brick == st.bricks[i]
        dx == st.ball.x - (brick.x + Px(BRICK_WIDTH) \div 2)
        dy == st.ball.y - (brick.y + Px(BRICK_HEIGHT) \div 2)
    IN  [st EXCEPT !.bricks[i].destroyed = TRUE,
                   !.score = st.score + brick.points,
                   !.ballVelocity =
                       IF Abs(dx) > Abs(dy)
                       THEN [x |-> -st.ballVelocity.x, y |-> st.ballVelocity.y]
                       ELSE [x |-> st.ballVelocity.x, y |-> -st.ballVelocity.y]]

\* (variant: the loop ends at the first brick hit)
RECURSIVE brickLoopFirstOnly(_, _, _)
brickLoopFirstOnly(st, i, rect) ==
    IF i > Len(st.bricks) THEN st
    ELSE IF /\ ~st.bricks[i].destroyed
            /\ checkCollision(rect, brickRect(st.bricks[i]))
         THEN hitBrick(st, i)
         ELSE brickLoopFirstOnly(st, i + 1, rect)

RECURSIVE brickLoop(_, _, _)
brickLoop(st, i, rect) ==
    IF i > Len(st.bricks) THEN st
    ELSE IF /\ ~st.bricks[i].destroyed
            /\ checkCollision(rect, brickRect(st.bricks[i]))
         THEN brickLoop(hitBrick(st, i), i + 1, rect)
         ELSE brickLoop(st, i + 1, rect)

bricksStep(st) == LET rect == ballRect(st.ball) IN brickLoop(st, 1, rect)

remainingBricks(st) == {i \in 1..Len(st.bricks) : ~st.bricks[i].destroyed}

(***************************************************************************)
(* The steps of one active tick, in the order of the game loop.            *)
(***************************************************************************)
moveBall(st) ==
    [st EXCEPT !.ball = [x |-> st.ball.x + st.ballVelocity.x,
                         y |-> st.ball.y + st.ballVelocity.y]]

\* (variant: the velocity is reflected but the position is not clamped)
wallXNoClamp(st) ==
    IF \/ st.ball.x <= Px(BALL_SIZE) \div 2
       \/ st.ball.x >= Px(GAME_WIDTH) - Px(BALL_SIZE) \div 2
    THEN [st EXCEPT !.ballVelocity.x = -st.ballVelocity.x]
    ELSE st

wallX(st) ==
    IF \/ st.ball.x <= Px(BALL_SIZE) \div 2
       \/ st.ball.x >= Px(GAME_WIDTH) - Px(BALL_SIZE) \div 2
    THEN [st EXCEPT !.ballVelocity.x = -st.ballVelocity.x,
                    !.ball.x = Max(Px(BALL_SIZE) \div 2,
                                   Min(Px(GAME_WIDTH) - Px(BALL_SIZE) \div 2, st.ball.x))]
    ELSE st

wallTop(st) ==
    IF st.ball.y <= Px(BALL_SIZE) \div 2
    THEN [st EXCEPT !.ballVelocity.y = -st.ballVelocity.y,
                    !.ball.y = Px(BALL_SIZE) \div 2]
    ELSE st

paddleCollision(st) == checkCollision(ballRect(st.ball), paddleRect(st.paddle))

\* (variant: the bounce does not ask for a ball moving down)
paddleStepAnyDirection(st) ==
    IF paddleCollision(st)
    THEN [st EXCEPT !.ballVelocity =
              paddleBounce(st.ball.x - (st.paddle.x + Px(PADDLE_WIDTH) \div 2), st.level)]
    ELSE st

paddleStep(st) ==
    IF paddleCollision(st) /\ st.ballVelocity.y > 0
    THEN [st EXCEPT !.ballVelocity =
              paddleBounce(st.ball.x - (st.paddle.x + Px(PADDLE_WIDTH) \div 2), st.level)]
    ELSE st

winCheck(st) ==
    IF Cardinality(remainingBricks(st)) = 0
    THEN [st EXCEPT !.gameWon = TRUE]
    ELSE st

\* (variant: the ball is put back but keeps its velocity)
resetBallKeepVelocity(st) ==
    [st EXCEPT !.ball = [x |-> Px(GAME_WIDTH) \div 2, y |-> Px(GAME_HEIGHT) - Px(60)],
               !.gameStarted = FALSE]

\* (variant: the ball is put back but the game stays started)
resetBallKeepStarted(st) ==
    [st EXCEPT !.ball = [x |-> Px(GAME_WIDTH) \div 2, y |-> Px(GAME_HEIGHT) - Px(60)],
               !.ballVelocity = [x |-> 0, y |-> 0]]

\* the state after a ball loss with lives left
resetBall(st) ==
    [st EXCEPT !.ball = [x |-> Px(GAME_WIDTH) \div 2, y |-> Px(GAME_HEIGHT) - Px(60)],
               !.ballVelocity = [x |-> 0, y |-> 0],
               !.gameStarted = FALSE]

\* (variant: the game ends when lives drops below 0)
lossCheckStrict(st) ==
    IF st.ball.y > Px(GAME_HEIGHT)
    THEN IF st.lives - 1 < 0
         THEN [st EXCEPT !.lives = st.lives - 1, !.gameOver = TRUE]
         ELSE resetBall([st EXCEPT !.lives = st.lives - 1])
    ELSE st

\* (variant: the ball is lost once it is wholly below the field)
lossCheckLate(st) ==
    IF st.ball.y - Px(BALL_SIZE) \div 2 > Px(GAME_HEIGHT)
    THEN IF st.lives - 1 <= 0
         THEN [st EXCEPT !.lives = st.lives - 1, !.gameOver = TRUE]
         ELSE resetBall([st EXCEPT !.lives = st.lives - 1])
    ELSE st

lossCheck(st) ==
    IF st.ball.y > Px(GAME_HEIGHT)
    THEN IF st.lives - 1 <= 0
         THEN [st EXCEPT !.lives = st.lives - 1, !.gameOver = TRUE]
         ELSE resetBall([st EXCEPT !.lives = st.lives - 1])
    ELSE st

\* (variants: the early return misses the paused flag, the gameWon flag)
inactiveNoPause(st) == st.gameOver \/ st.gameWon \/ ~st.gameStarted
inactiveNoWon(st) == st.gameOver \/ st.paused \/ ~st.gameStarted

\* the early return of the updater
inactive(st) == st.gameOver \/ st.gameWon \/ st.paused \/ ~st.gameStarted

\* (variant: the win check runs before the brick loop)
gameLoopUpdaterWinFirst(prevState) ==
    IF inactive(prevState) THEN prevState
    ELSE lossCheck(bricksStep(winCheck(paddleStep(wallTop(wallX(moveBall(prevState)))))))

\* the updater gameLoop passes to setGameState
gameLoopUpdater(prevState) ==
    IF inactive(prevState) THEN prevState
    ELSE lossCheck(winCheck(bricksStep(paddleStep(wallTop(wallX(moveBall(prevState)))))))

\* The object prevState after the updater has run on it.  newState is a
\* shallow copy, so newState.ball, newState.ballVelocity and the brick
\* objects are prevState's own: the ball move, the wall and paddle
\* reflections and the brick loop write into them.  score, lives and the
\* flags are assigned on newState, and a ball loss assigns new ball and
\* velocity objects to newState, so those writes do not reach prevState.
prevStateAfter(prevState) ==
    IF inactive(prevState) THEN prevState
    ELSE LET mid == bricksStep(paddleStep(wallTop(wallX(moveBall(prevState)))))
         IN  [prevState EXCEPT !.ball = mid.ball,
                               !.ballVelocity = mid.ballVelocity,
                               !.bricks = mid.bricks]

(***************************************************************************)
(* State                                                                   *)
(***************************************************************************)
VARIABLES
    gameState,        \* useState<GameState>
    bestScore,        \* useState<number>
    isDragging,       \* useState(false)
    levelStartScore,  \* history: the score the current level started with
    budget,           \* exploration: active ticks still to be explored
    pendingFrames,    \* the number of frame callbacks requested and not yet run or cancelled
    animationRefLive, \* animationRef.current is the id of a pending frame callback
    effectDeps,       \* the dependencies the frame-loop effect last ran with
    keys,             \* particle variant: useState({ left: false, right: false })
    collisionCall     \* a call of checkCollision: its arguments, whether it has returned, its result

vars == <<gameState, bestScore, isDragging, levelStartScore, budget,
          pendingFrames, animationRefLive, effectDeps, keys, collisionCall>>

\* no call of checkCollision outside a tick is followed
NoCall == [returned |-> FALSE]

\* the variables of the frame loop
loopVars == <<pendingFrames, animationRefLive, effectDeps>>

\* (variant: the effect does not depend on paused)
loopDepsNoPause(st) == <<st.gameStarted, st.gameOver, st.gameWon>>

\* the game-state dependencies of the frame-loop effect
loopDeps(st) == <<st.gameStarted, st.gameOver, st.gameWon, st.paused>>

\* The sum of the points of the destroyed bricks.
RECURSIVE destroyedPoints(_, _)
destroyedPoints(bricks, i) ==
    IF i > Len(bricks) THEN 0
    ELSE (IF bricks[i].destroyed THEN bricks[i].points ELSE 0)
         + destroyedPoints(bricks, i + 1)

\* A level-1 state later in play: the bricks outside `remaining` destroyed and
\* scored, `lives` lives left, the ball waiting for the serve.
midLevelState(remaining, lives) ==
    LET bricks == [i \in 1..NumBricks |->
                      [brickAt(i) EXCEPT !.destroyed = (i \notin remaining)]]
    IN  [createInitialState(1) EXCEPT !.bricks = bricks,
                                      !.score = destroyedPoints(bricks, 1),
                                      !.lives = lives]

\* The brick sets left standing in the later-in-play starting states: bricks
\* of the bottom row, left of and above the serve position (6-2 and 6-4).
LateRemainders == { {63}, {63, 65} }

Init ==
    /\ gameState \in {createInitialState(1)}
                     \cup {midLevelState(r, 1) : r \in LateRemainders}
    /\ bestScore = 0
    /\ isDragging = FALSE
    /\ levelStartScore = 0
    /\ budget = MaxTicks
    \* the effect has run on mount: the game is not started, nothing requested
    /\ pendingFrames = 0
    /\ animationRefLive = FALSE
    /\ effectDeps = loopDeps(gameState)
    /\ keys = [left |-> FALSE, right |-> FALSE]
    /\ collisionCall = NoCall

(***************************************************************************)
(* The frame callback                                                      *)
(***************************************************************************)
\* A pending frame callback runs: it is no longer pending, applies the updater
\* and requests the next frame, storing the id in animationRef.current.
gameLoop ==
    /\ pendingFrames > 0
    /\ inactive(gameState) \/ budget > 0
    /\ gameState' = gameLoopUpdater(gameState)
    /\ budget' = IF inactive(gameState) THEN budget ELSE budget - 1
    /\ pendingFrames' = (pendingFrames - 1) + 1
    /\ animationRefLive' = TRUE
    /\ UNCHANGED <<bestScore, isDragging, levelStartScore, effectDeps, keys, collisionCall>>

\* cancelAnimationFrame(animationRef.current): the number of pending callbacks
\* after it (a cancelled or finished id cancels nothing)
\* (variant: the cleanup cancels nothing)
cancelFrameNone(pending, live) == pending

cancelFrame(pending, live) == IF live THEN pending - 1 ELSE pending

\* the condition under which the effect requests a frame
inPlay(st) == st.gameStarted /\ ~st.gameOver /\ ~st.gameWon /\ ~st.paused

\* The frame-loop effect after a render in which one of its dependencies
\* changed: the cleanup of the previous run cancels animationRef.current,
\* then the effect requests a frame if the game is in play.
frameLoopEffect ==
    /\ loopDeps(gameState) # effectDeps
    /\ LET afterCleanup == cancelFrame(pendingFrames, animationRefLive)
       IN  IF inPlay(gameState)
           THEN /\ pendingFrames' = afterCleanup + 1
                /\ animationRefLive' = TRUE
           ELSE /\ pendingFrames' = afterCleanup
                /\ animationRefLive' = FALSE
    /\ effectDeps' = loopDeps(gameState)
    /\ UNCHANGED <<gameState, bestScore, isDragging, levelStartScore, budget, keys, collisionCall>>

(***************************************************************************)
(* Game controls                                                           *)
(***************************************************************************)
\* (Math.random() - 0.5) * 2 for Math.random() = k / RandSteps, in units
serveX(k) == Round((2 * k - RandSteps) * Scale, RandSteps)

\* (variant: the serve is directed down the field)
startGameUpdaterDown(prev, k) ==
    [prev EXCEPT !.gameStarted = TRUE,
                 !.ballVelocity = [x |-> serveX(k),
                                   y |-> Px(3) + (prev.level * Scale) \div 2]]

startGameUpdater(prev, k) ==
    [prev EXCEPT !.gameStarted = TRUE,
                 !.ballVelocity = [x |-> serveX(k),
                                   y |-> -(Px(3) + (prev.level * Scale) \div 2)]]

\* the start screen and the serve branch of the pointer handlers are there
\* only in these states
awaitingServe(st) == ~st.gameStarted /\ ~st.gameOver /\ ~st.gameWon

\* StartScreen's button
startGame ==
    /\ awaitingServe(gameState)
    /\ \E k \in 0..(RandSteps - 1) : gameState' = startGameUpdater(gameState, k)
    /\ UNCHANGED <<bestScore, isDragging, levelStartScore, budget>>
    /\ UNCHANGED <<loopVars, keys, collisionCall>>

\* (variant: pausing also stops the ball)
togglePauseUpdaterStop(prev) ==
    [prev EXCEPT !.paused = ~prev.paused, !.ballVelocity = [x |-> 0, y |-> 0]]

\* prev => ({...prev, paused: !prev.paused})
togglePauseUpdater(prev) == [prev EXCEPT !.paused = ~prev.paused]

\* the pause button (disabled unless in play) and PauseScreen's resume button
togglePause ==
    /\ \/ gameState.gameStarted /\ ~gameState.gameOver /\ ~gameState.gameWon
       \/ gameState.paused
    /\ gameState' = togglePauseUpdater(gameState)
    /\ UNCHANGED <<bestScore, isDragging, levelStartScore, budget>>
    /\ UNCHANGED <<loopVars, keys, collisionCall>>

\* (variant: the score is recorded without comparing)
recordBestAlways(score, best) == score

\* if (gameState.score > bestScore) setBestScore(gameState.score)
recordBest(score, best) == IF score > best THEN score ELSE best

\* the restart buttons (always there)
restartGame ==
    /\ bestScore' = recordBest(gameState.score, bestScore)
    /\ gameState' = createInitialState(1)
    /\ isDragging' = FALSE
    /\ levelStartScore' = 0
    /\ budget' = ReplayTicks
    /\ UNCHANGED <<loopVars, keys, collisionCall>>

\* (variant: the button is rendered whenever GameOverScreen is)
nextLevelOfferedAlways(st) == st.gameOver \/ st.gameWon

\* GameOverScreen is rendered while gameOver or gameWon, its next-level button
\* while gameWon
nextLevelOffered(st) == (st.gameOver \/ st.gameWon) /\ st.gameWon

\* (variant: the score is not carried into the next level)
nextLevelUpdaterFresh(prev) == createInitialState(prev.level + 1)

\* prev => ({...createInitialState(prev.level + 1), score: prev.score})
nextLevelUpdater(prev) ==
    [createInitialState(prev.level + 1) EXCEPT !.score = prev.score]

nextLevel ==
    /\ nextLevelOffered(gameState)
    /\ gameState.level < MaxLevel
    /\ bestScore' = recordBest(gameState.score, bestScore)
    /\ gameState' = nextLevelUpdater(gameState)
    /\ isDragging' = FALSE
    /\ levelStartScore' = gameState.score
    /\ budget' = MaxTicks
    /\ UNCHANGED <<loopVars, keys, collisionCall>>

(***************************************************************************)
(* Pointer controls; gameX is getGameCoordinate's result, in units.        *)
(***************************************************************************)
movePaddle(prev, gameX) ==
    [prev EXCEPT !.paddle.x =
        Max(0, Min(Px(GAME_WIDTH) - Px(PADDLE_WIDTH), gameX - Px(PADDLE_WIDTH) \div 2))]

handleTouchStart ==
    IF awaitingServe(gameState)
    THEN /\ \E k \in 0..(RandSteps - 1) : gameState' = startGameUpdater(gameState, k)
         /\ UNCHANGED <<bestScore, isDragging, levelStartScore, budget>>
         /\ UNCHANGED <<loopVars, keys, collisionCall>>
    ELSE /\ isDragging' = TRUE
         /\ \E px \in PointerXs : gameState' = movePaddle(gameState, Px(px))
         /\ UNCHANGED <<bestScore, levelStartScore, budget>>
         /\ UNCHANGED <<loopVars, keys, collisionCall>>

handleTouchMove ==
    /\ isDragging
    /\ \E px \in PointerXs : gameState' = movePaddle(gameState, Px(px))
    /\ UNCHANGED <<bestScore, isDragging, levelStartScore, budget>>
    /\ UNCHANGED <<loopVars, keys, collisionCall>>

handleTouchEnd ==
    /\ isDragging' = FALSE
    /\ UNCHANGED <<gameState, bestScore, levelStartScore, budget>>
    /\ UNCHANGED <<loopVars, keys, collisionCall>>

handleMouseDown ==
    IF awaitingServe(gameState)
    THEN /\ \E k \in 0..(RandSteps - 1) : gameState' = startGameUpdater(gameState, k)
         /\ UNCHANGED <<bestScore, isDragging, levelStartScore, budget>>
         /\ UNCHANGED <<loopVars, keys, collisionCall>>
    ELSE /\ isDragging' = TRUE
         /\ \E px \in PointerXs : gameState' = movePaddle(gameState, Px(px))
         /\ UNCHANGED <<bestScore, levelStartScore, budget>>
         /\ UNCHANGED <<loopVars, keys, collisionCall>>

\* the game area's onMouseMove and the document listener do the same update
handleMouseMove ==
    /\ isDragging
    /\ \E px \in PointerXs : gameState' = movePaddle(gameState, Px(px))
    /\ UNCHANGED <<bestScore, isDragging, levelStartScore, budget>>
    /\ UNCHANGED <<loopVars, keys, collisionCall>>

handleMouseUp ==
    /\ isDragging' = FALSE
    /\ UNCHANGED <<gameState, bestScore, levelStartScore, budget>>
    /\ UNCHANGED <<loopVars, keys, collisionCall>>

Next ==
    \/ gameLoop
    \/ frameLoopEffect
    \/ startGame
    \/ togglePause
    \/ restartGame
    \/ nextLevel
    \/ handleTouchStart
    \/ handleTouchMove
    \/ handleTouchEnd
    \/ handleMouseDown
    \/ handleMouseMove
    \/ handleMouseUp

Spec == Init /\ [][Next]_vars

(***************************************************************************)
(* The frame loop under fairness: the mounted component and states later   *)
(* in play on the eve of a win and of a ball loss, followed for a few      *)
(* ticks after each start.                                                 *)
(***************************************************************************)
\* Active ticks explored after the initial state, a restart or a level advance.
FairTicks == 3

\* A level-1 state in play: the ball in flight at `ball` with velocity
\* `velocity`, the paddle at paddleX.
fairPlayState(remaining, lives, ball, velocity, paddleX) ==
    [midLevelState(remaining, lives) EXCEPT !.gameStarted = TRUE,
                                            !.ball = ball,
                                            !.ballVelocity = velocity,
                                            !.paddle.x = paddleX]

\* The mounted component; a ball served to the left (Math.random() = 0), 64
\* ticks on, about to reach the last brick 6-2; and a ball served to the left
\* that has taken brick 6-2 and come back down by the left wall, about to
\* pass the bottom of the field left of the paddle, on the last life and
\* with a life to spare.
FairStates ==
    LET s == baseSpeed(1)
        lastBrick == [x |-> Px(160) + 64 * serveX(0), y |-> Px(420) - 64 * s]
        falling == [x |-> Px(13), y |-> Px(480) - 5]
    IN  { createInitialState(1),
          fairPlayState({63}, 1, lastBrick, [x |-> serveX(0), y |-> -s], Px(125)),
          fairPlayState({65}, 1, falling, [x |-> serveX(0), y |-> s], Px(125)),
          fairPlayState({65}, 2, falling, [x |-> serveX(0), y |-> s], Px(125)) }

FairInit ==
    /\ gameState \in FairStates
    /\ bestScore = 0
    /\ isDragging = FALSE
    /\ levelStartScore = 0
    /\ budget = MaxTicks
    \* the effect has run: a frame is requested if the game is in play
    /\ pendingFrames = IF inPlay(gameState) THEN 1 ELSE 0
    /\ animationRefLive = inPlay(gameState)
    /\ effectDeps = loopDeps(gameState)
    /\ keys = [left |-> FALSE, right |-> FALSE]
    /\ collisionCall = NoCall

\* the frame callback, for FairTicks active ticks after a start
fairGameLoop ==
    /\ inactive(gameState) \/ budget > MaxTicks - FairTicks
    /\ gameLoop

FairNext ==
    \/ fairGameLoop
    \/ frameLoopEffect
    \/ startGame
    \/ togglePause
    \/ restartGame
    \/ nextLevel
    \/ handleTouchStart
    \/ handleTouchMove
    \/ handleTouchEnd
    \/ handleMouseDown
    \/ handleMouseMove
    \/ handleMouseUp

\* React runs the effects of a render once the render is committed: the
\* frame-loop effect does not stay pending for ever.
FairSpec == FairInit /\ [][FairNext]_vars /\ WF_vars(frameLoopEffect)

(***************************************************************************)
(* The tick as a function: states in play with the ball at the paddle or   *)
(* at the bricks, and the frame callback applied to them.                  *)
(***************************************************************************)
\* Ticks applied to each state.
TickBudget == 2

\* the points of all bricks of a level
levelPoints == destroyedPoints([i \in 1..NumBricks |-> [brickAt(i) EXCEPT !.destroyed = TRUE]], 1)

\* paddle positions, in units
TickPaddleXs == {0, Px(125), Px(GAME_WIDTH) - Px(PADDLE_WIDTH)}

\* the ball's x after the move, relative to the paddle centre, in units: beside
\* the paddle, on its edges, over it, on its centre
TickOffsets == {-Px(41), -Px(40), -Px(36), -Px(35), -Px(10), 0, Px(10), Px(35), Px(36), Px(40), Px(41)}

\* the ball's y after the move, in units: from just above the paddle to just
\* below it (the rectangles overlap for y in 434..456 pixels, ends excluded)
TickYs == {Px(434), Px(435), Px(440), Px(455), Px(456)}

\* ball velocities of the level's speed s: straight down, as served and
\* reflected by a brick, as bounced off the paddle and reflected, moving up
TickVelocities(level) ==
    LET s == baseSpeed(level)
    IN  { <<0, s>>, <<-Px(1), s>>, <<Px(1), s>>,
          <<(3 * s) \div 5, (4 * s) \div 5>>, <<-((4 * s) \div 5), (3 * s) \div 5>>,
          <<Px(1), -s>>, <<(3 * s) \div 5, -((4 * s) \div 5)>> }

\* the state in play of the level whose tick moves the ball to offset off of
\* the paddle centre and to height y
tickState(level, px, off, y, v) ==
    [createInitialState(level) EXCEPT
        !.score = (level - 1) * levelPoints,
        !.gameStarted = TRUE,
        !.paddle.x = px,
        !.ball = [x |-> px + Px(PADDLE_WIDTH) \div 2 + off - v[1], y |-> y - v[2]],
        !.ballVelocity = [x |-> v[1], y |-> v[2]]]

TickStates ==
    { st \in { tickState(level, px, off, y, v) :
                   level \in {l \in 1..MaxLevel : TRUE}, px \in TickPaddleXs,
                   off \in TickOffsets, y \in TickYs,
                   v \in UNION {TickVelocities(l) : l \in 1..MaxLevel} } :
        /\ <<st.ballVelocity.x, st.ballVelocity.y>> \in TickVelocities(st.level)
        /\ st.ball.x >= Px(BALL_SIZE) \div 2
        /\ st.ball.x <= Px(GAME_WIDTH) - Px(BALL_SIZE) \div 2
        /\ st.ball.y <= Px(GAME_HEIGHT) }

\* The bricks the ball is brought to: 0-4 in the top row, 6-4 in the bottom row.
BrickTickTargets == {5, 65}

\* the ball centre after the move, relative to the target's centre, in units:
\* the rectangles overlap for |dx| < 200 and |dy| < 150, and the ball reaches
\* into the next brick of the row for |dx| > 100
BrickTickDxs == {-190, -150, -120, -40, 0, 100, 120, 145, 150, 190}
BrickTickDys == {-145, -140, 0, 140, 145}

\* the bricks standing: all of them, or the target alone
BrickTickPatterns == {"full", "alone"}

\* ball velocities of the level's speed s, up and down the field
BrickTickVelocities(level) ==
    LET s == baseSpeed(level)
    IN  { <<0, -s>>, <<Px(1), -s>>, <<(3 * s) \div 5, -((4 * s) \div 5)>>,
          <<-((4 * s) \div 5), -((3 * s) \div 5)>>,
          <<0, s>>, <<-Px(1), s>>, <<(4 * s) \div 5, (3 * s) \div 5>> }

\* the state in play whose tick moves the ball to (dx, dy) off the centre of
\* brick target
brickTickState(level, target, pattern, dx, dy, v) ==
    LET bricks == [i \in 1..NumBricks |->
                      [brickAt(i) EXCEPT !.destroyed = (pattern = "alone" /\ i # target)]]
        cx == brickAt(target).x + Px(BRICK_WIDTH) \div 2
        cy == brickAt(target).y + Px(BRICK_HEIGHT) \div 2
    IN  [createInitialState(level) EXCEPT
            !.bricks = bricks,
            !.score = (level - 1) * levelPoints + destroyedPoints(bricks, 1),
            !.gameStarted = TRUE,
            !.ball = [x |-> cx + dx - v[1], y |-> cy + dy - v[2]],
            !.ballVelocity = [x |-> v[1], y |-> v[2]]]

\* the ball is in the field and, before the move, clear of every standing
\* brick (a brick it overlapped was destroyed by the tick before)
BrickTickStates ==
    { st \in { brickTickState(level, target, pattern, dx, dy, v) :
                   level \in 1..MaxLevel, target \in BrickTickTargets,
                   pattern \in BrickTickPatterns,
                   dx \in BrickTickDxs, dy \in BrickTickDys,
                   v \in UNION {BrickTickVelocities(l) : l \in 1..MaxLevel} } :
        /\ <<st.ballVelocity.x, st.ballVelocity.y>> \in BrickTickVelocities(st.level)
        /\ st.ball.y > Px(BALL_SIZE) \div 2
        /\ \A i \in remainingBricks(st) :
              ~checkCollision(ballRect(st.ball), brickRect(st.bricks[i])) }

TickInit ==
    /\ gameState \in TickStates \cup BrickTickStates
    /\ bestScore = 0
    /\ isDragging = FALSE
    /\ levelStartScore = gameState.score
    /\ budget = TickBudget
    \* the game is in play: the effect has requested a frame
    /\ pendingFrames = 1
    /\ animationRefLive = TRUE
    /\ effectDeps = loopDeps(gameState)
    /\ keys = [left |-> FALSE, right |-> FALSE]
    /\ collisionCall = NoCall

TickNext == gameLoop

TickSpec == TickInit /\ [][TickNext]_vars

(***************************************************************************)
(* The particle variant of the component (src/unnamed/part_000, third      *)
(* component): the same field, bricks, walls and loss handling, with       *)
(* keyboard control of the paddle, particles, a speed kept within limits   *)
(* and a pause key.  Its gameLoop closes over keys and, through            *)
(* adjustVelocity, over the level, so the callback changes with them and   *)
(* the frame-loop effect runs again; React runs the effects of a render    *)
(* before it handles the next state update, so the handlers wait for a     *)
(* pending effect while frame callbacks do not.                            *)
(*                                                                         *)
(* A particle is kept as its life, in steps of 0.02; its size, position    *)
(* and velocity are random display values and are left out.                *)
(***************************************************************************)
\* Active ticks explored from an initial state, a restart or a level advance.
ParticleTicks == 3

\* life: 1, less 0.02 per tick
PARTICLE_LIFE == 50

\* the step of the paddle per tick with an arrow key down, in pixels
KEY_STEP == 8

particleInitialState(level) == [particles |-> <<>>] @@ createInitialState(level)

\* createParticles(x, y, color, count)
createParticles(count) == [i \in 1..count |-> [life |-> PARTICLE_LIFE]]

\* the largest r in lo..hi with r * r <= n
RECURSIVE isqrtIn(_, _, _)
isqrtIn(n, lo, hi) ==
    IF lo >= hi THEN lo
    ELSE LET mid == (lo + hi + 1) \div 2
         IN  IF mid * mid <= n THEN isqrtIn(n, mid, hi) ELSE isqrtIn(n, lo, mid - 1)

\* Math.sqrt(n) in hundredths (the search stays below the root of 2^31)
sqrt100(n) == isqrtIn(n * 10000, 0, Min(100 * (n + 1), 46340))

\* 0 / 0
NaN == "NaN"

\* minSpeed = 2.0 + level * 0.3, maxSpeed = 5.0, in units
minSpeed(level) == Px(2) + (3 * level * Scale) \div 10
maxSpeed == Px(5)

\* velocity scaled to the speed `to`: (v / speed) * to
scaleVelocity(velocity, to) ==
    LET n == velocity.x * velocity.x + velocity.y * velocity.y
    IN  IF n = 0 THEN [x |-> NaN, y |-> NaN]
        ELSE [x |-> Round(velocity.x * to * 100, sqrt100(n)),
              y |-> Round(velocity.y * to * 100, sqrt100(n))]

adjustVelocity(velocity, level) ==
    LET n == velocity.x * velocity.x + velocity.y * velocity.y
    IN  IF n < minSpeed(level) * minSpeed(level) THEN scaleVelocity(velocity, minSpeed(level))
        ELSE IF n > maxSpeed * maxSpeed THEN scaleVelocity(velocity, maxSpeed)
        ELSE velocity

\* (variant: the paddle is moved without clamping)
particleKeyMoveNoClamp(st, k) ==
    LET x1 == IF k.left THEN st.paddle.x - Px(KEY_STEP) ELSE st.paddle.x
        x2 == IF k.right THEN x1 + Px(KEY_STEP) ELSE x1
    IN  [st EXCEPT !.paddle.x = x2]

\* Move paddle with keyboard
particleKeyMove(st, k) ==
    LET x1 == IF k.left THEN Max(0, st.paddle.x - Px(KEY_STEP)) ELSE st.paddle.x
        x2 == IF k.right THEN Min(Px(GAME_WIDTH) - Px(PADDLE_WIDTH), x1 + Px(KEY_STEP)) ELSE x1
    IN  [st EXCEPT !.paddle.x = x2]

\* baseSpeed = 1.8 + level * 0.3, in units
particleBaseSpeed(level) == (18 * Scale) \div 10 + (3 * level * Scale) \div 10

particlePaddleBounce(offset, level) ==
    LET d == MaxAngleDiv * (Px(PADDLE_WIDTH) \div 2)
        s == sinPi(offset, d)
        c == cosPi(offset, d)
    IN  [ x |-> Round(s[1] * particleBaseSpeed(level), s[2]),
          y |-> -Round(c[1] * particleBaseSpeed(level), c[2]) ]

particlePaddleStep(st) ==
    IF paddleCollision(st) /\ st.ballVelocity.y > 0
    THEN [st EXCEPT !.ballVelocity =
              particlePaddleBounce(st.ball.x - (st.paddle.x + Px(PADDLE_WIDTH) \div 2), st.level),
                    !.particles = st.particles \o createParticles(6)]
    ELSE st

particleHitBrick(st, i) ==
    LET hit == hitBrick(st, i)
    IN  [hit EXCEPT !.particles = hit.particles \o createParticles(8)]

RECURSIVE particleBrickLoop(_, _, _)
particleBrickLoop(st, i, rect) ==
    IF i > Len(st.bricks) THEN st
    ELSE IF /\ ~st.bricks[i].destroyed
            /\ checkCollision(rect, brickRect(st.bricks[i]))
         THEN particleBrickLoop(particleHitBrick(st, i), i + 1, rect)
         ELSE particleBrickLoop(st, i + 1, rect)

particleBricksStep(st) == LET rect == ballRect(st.ball) IN particleBrickLoop(st, 1, rect)

\* (variant: every live particle adds a point)
updateParticlesScoring(st) ==
    LET aged == [i \in 1..Len(st.particles) |-> [life |-> st.particles[i].life - 1]]
    IN  [st EXCEPT !.particles = SelectSeq(aged, LAMBDA q : q.life > 0),
                   !.score = st.score + Len(st.particles)]

\* Update particles: one step of life less, the dead ones dropped
updateParticles(st) ==
    LET aged == [i \in 1..Len(st.particles) |-> [life |-> st.particles[i].life - 1]]
    IN  [st EXCEPT !.particles = SelectSeq(aged, LAMBDA q : q.life > 0)]

adjustVelocityStep(st, level) ==
    [st EXCEPT !.ballVelocity = adjustVelocity(st.ballVelocity, level)]

particleWinCheck(st) ==
    IF Cardinality(remainingBricks(st)) = 0 /\ Len(st.bricks) > 0
    THEN [st EXCEPT !.gameWon = TRUE]
    ELSE st

\* the updater of the variant's gameLoop; k and level are the keys and the
\* level the callback closes over
particleGameLoopUpdater(prevState, k, level) ==
    IF inactive(prevState) THEN prevState
    ELSE lossCheck(particleWinCheck(adjustVelocityStep(updateParticles(
             particleBricksStep(particlePaddleStep(wallTop(wallX(moveBall(
                 particleKeyMove(prevState, k))))))), level)))

\* the dependencies of the variant's frame-loop effect: the flags and, through
\* gameLoop, keys and the level; stale: setKeys has put a new keys object
particleLoopDeps(st, k) ==
    [flags |-> loopDeps(st), keys |-> k, level |-> st.level, stale |-> FALSE]

effectPending == effectDeps # particleLoopDeps(gameState, keys)

\* the columns above the serve position, cleared by a ball served straight up
ClearedColumns == {4, 5}

\* A level-1 state later in play: the ball in flight at `ball` with velocity
\* `velocity`, the bricks outside `remaining` destroyed and scored.
particlePlayState(remaining, lives, ball, velocity, paddleX) ==
    LET bricks == [i \in 1..NumBricks |->
                      [brickAt(i) EXCEPT !.destroyed = (i \notin remaining)]]
    IN  [particleInitialState(1) EXCEPT !.bricks = bricks,
                                        !.score = destroyedPoints(bricks, 1),
                                        !.lives = lives,
                                        !.gameStarted = TRUE,
                                        !.ball = ball,
                                        !.ballVelocity = velocity,
                                        !.paddle.x = paddleX]

\* The states the exploration starts from: the mounted component; a ball
\* served straight up (Math.random() = 0.5) about to reach the last brick; the
\* same ball, back from the top wall through the columns it has cleared,
\* about to reach the paddle; and that ball missed by the paddle, about to
\* leave the field with lives to spare and without.
ParticleStates ==
    LET up == [x |-> 0, y |-> -minSpeed(1)]
        down == [x |-> 0, y |-> minSpeed(1)]
        cleared == {i \in 1..NumBricks : ((i - 1) % BRICK_COLS) \notin ClearedColumns}
        top == Px(BALL_SIZE) \div 2
    IN  { particleInitialState(1),
          particlePlayState({65}, 3, [x |-> Px(160), y |-> Px(420) - 98 * minSpeed(1)], up, Px(125)),
          particlePlayState(cleared, 3, [x |-> Px(160), y |-> top + 185 * minSpeed(1)], down, Px(125)),
          particlePlayState(cleared, 2, [x |-> Px(160), y |-> top + 205 * minSpeed(1)], down, 0),
          particlePlayState(cleared, 1, [x |-> Px(160), y |-> top + 205 * minSpeed(1)], down, 0) }

ParticleInit ==
    /\ gameState \in ParticleStates
    /\ bestScore = 0
    /\ isDragging = FALSE
    /\ levelStartScore = 0
    /\ budget = ParticleTicks
    /\ keys = [left |-> FALSE, right |-> FALSE]
    /\ collisionCall = NoCall
    \* the effect has run: a frame is requested if the game is in play
    /\ pendingFrames = IF inPlay(gameState) THEN 1 ELSE 0
    /\ animationRefLive = inPlay(gameState)
    /\ effectDeps = particleLoopDeps(gameState, keys)

\* A pending frame callback runs, with the keys and the level it closed over.
particleGameLoop ==
    /\ pendingFrames > 0
    /\ inactive(gameState) \/ budget > 0
    /\ gameState' = particleGameLoopUpdater(gameState, effectDeps.keys, effectDeps.level)
    /\ budget' = IF inactive(gameState) THEN budget ELSE budget - 1
    /\ pendingFrames' = (pendingFrames - 1) + 1
    /\ animationRefLive' = TRUE
    /\ UNCHANGED <<bestScore, isDragging, levelStartScore, effectDeps, keys, collisionCall>>

particleFrameLoopEffect ==
    /\ effectPending
    /\ LET afterCleanup == cancelFrame(pendingFrames, animationRefLive)
       IN  IF inPlay(gameState)
           THEN /\ pendingFrames' = afterCleanup + 1
                /\ animationRefLive' = TRUE
           ELSE /\ pendingFrames' = afterCleanup
                /\ animationRefLive' = FALSE
    /\ effectDeps' = particleLoopDeps(gameState, keys)
    /\ UNCHANGED <<gameState, bestScore, isDragging, levelStartScore, budget, keys, collisionCall>>

\* (Math.random() - 0.5) * 1.5 for Math.random() = k / RandSteps, in units
particleServeX(k) == Round((2 * k - RandSteps) * 15 * Scale, 2 * RandSteps * 10)

\* (variant: the serve has no vertical component)
particleStartGameUpdaterFlat(prev, k) ==
    [prev EXCEPT !.gameStarted = TRUE,
                 !.ballVelocity = [x |-> particleServeX(k), y |-> 0]]

particleStartGameUpdater(prev, k) ==
    [prev EXCEPT !.gameStarted = TRUE,
                 !.ballVelocity = [x |-> particleServeX(k),
                                   y |-> -(Px(2) + (3 * prev.level * Scale) \div 10)]]

particleStartGame ==
    /\ ~effectPending
    /\ awaitingServe(gameState)
    /\ \E k \in 0..(RandSteps - 1) : gameState' = particleStartGameUpdater(gameState, k)
    /\ UNCHANGED <<bestScore, isDragging, levelStartScore, budget, loopVars, keys, collisionCall>>

\* the pause button (disabled unless in play) and PauseScreen's resume button
particleTogglePause ==
    /\ ~effectPending
    /\ togglePause

particleRestartGame ==
    /\ ~effectPending
    /\ bestScore' = recordBest(gameState.score, bestScore)
    /\ gameState' = particleInitialState(1)
    /\ isDragging' = FALSE
    /\ levelStartScore' = 0
    /\ budget' = ParticleTicks
    /\ UNCHANGED <<loopVars, keys, collisionCall>>

particleNextLevel ==
    /\ ~effectPending
    /\ nextLevelOffered(gameState)
    /\ gameState.level < MaxLevel
    /\ bestScore' = recordBest(gameState.score, bestScore)
    /\ gameState' = [particleInitialState(gameState.level + 1) EXCEPT !.score = gameState.score]
    /\ isDragging' = FALSE
    /\ levelStartScore' = gameState.score
    /\ budget' = ParticleTicks
    /\ UNCHANGED <<loopVars, keys, collisionCall>>

particleTouchStart ==
    /\ ~effectPending
    /\ IF awaitingServe(gameState)
       THEN /\ \E k \in 0..(RandSteps - 1) : gameState' = particleStartGameUpdater(gameState, k)
            /\ UNCHANGED <<bestScore, isDragging, levelStartScore, budget, loopVars, keys, collisionCall>>
       ELSE /\ isDragging' = TRUE
            /\ \E px \in PointerXs : gameState' = movePaddle(gameState, Px(px))
            /\ UNCHANGED <<bestScore, levelStartScore, budget, loopVars, keys, collisionCall>>

particleTouchMove == ~effectPending /\ handleTouchMove

particleTouchEnd == ~effectPending /\ handleTouchEnd

particleMouseDown ==
    /\ ~effectPending
    /\ IF awaitingServe(gameState)
       THEN /\ \E k \in 0..(RandSteps - 1) : gameState' = particleStartGameUpdater(gameState, k)
            /\ UNCHANGED <<bestScore, isDragging, levelStartScore, budget, loopVars, keys, collisionCall>>
       ELSE /\ isDragging' = TRUE
            /\ \E px \in PointerXs : gameState' = movePaddle(gameState, Px(px))
            /\ UNCHANGED <<bestScore, levelStartScore, budget, loopVars, keys, collisionCall>>

particleMouseMove == ~effectPending /\ handleMouseMove

particleMouseUp == ~effectPending /\ handleMouseUp

\* the window's keydown listener: the arrow keys set keys (a new object, so
\* the callback and the effect's dependencies change even when the key was
\* down already), 'p' and the space bar toggle the pause
handleKeyDown ==
    /\ ~effectPending
    /\ \E key \in {"ArrowLeft", "ArrowRight", "p", " "} :
         IF key \in {"p", " "}
         THEN /\ gameState' = togglePauseUpdater(gameState)
              /\ UNCHANGED <<keys, effectDeps>>
         ELSE /\ keys' = IF key = "ArrowLeft" THEN [keys EXCEPT !.left = TRUE]
                                              ELSE [keys EXCEPT !.right = TRUE]
              /\ effectDeps' = [effectDeps EXCEPT !.stale = TRUE]
              /\ UNCHANGED gameState
    /\ UNCHANGED <<bestScore, isDragging, levelStartScore, budget, pendingFrames, animationRefLive,
                 collisionCall>>

handleKeyUp ==
    /\ ~effectPending
    /\ \E key \in {"ArrowLeft", "ArrowRight"} :
         keys' = IF key = "ArrowLeft" THEN [keys EXCEPT !.left = FALSE]
                                      ELSE [keys EXCEPT !.right = FALSE]
    /\ effectDeps' = [effectDeps EXCEPT !.stale = TRUE]
    /\ UNCHANGED <<gameState, bestScore, isDragging, levelStartScore, budget,
                   pendingFrames, animationRefLive, collisionCall>>

ParticleNext ==
    \/ particleGameLoop
    \/ particleFrameLoopEffect
    \/ particleStartGame
    \/ particleTogglePause
    \/ particleRestartGame
    \/ particleNextLevel
    \/ particleTouchStart
    \/ particleTouchMove
    \/ particleTouchEnd
    \/ particleMouseDown
    \/ particleMouseMove
    \/ particleMouseUp
    \/ handleKeyDown
    \/ handleKeyUp

ParticleSpec == ParticleInit /\ [][ParticleNext]_vars

(***************************************************************************)
(* The particle variant's tick as a function: states just served and       *)
(* states in play with the ball at the paddle, at low levels and at the    *)
(* levels where minSpeed reaches and passes maxSpeed, and the frame        *)
(* callback applied to them.                                               *)
(***************************************************************************)
\* nextLevel sets level + 1 without a limit
ParticleTickLevels == {1, 2, 10, 11}

\* the speed the ball is kept at once the normalization has acted
keptSpeed(level) == Min(minSpeed(level), maxSpeed)

\* ball velocities moving down: straight, and with the serve's horizontal
\* component after a reflection by the top wall
ParticleTickVelocities(level) ==
    { v \in { <<x, keptSpeed(level)>> : x \in {particleServeX(k) : k \in 0..(RandSteps - 1)}
                                             \cup {-particleServeX(k) : k \in 0..(RandSteps - 1)} } :
        v[1] * v[1] + v[2] * v[2] <= maxSpeed * maxSpeed }

particleTickState(level, px, off, y, v) ==
    [particleInitialState(level) EXCEPT
        !.score = (level - 1) * levelPoints,
        !.gameStarted = TRUE,
        !.paddle.x = px,
        !.ball = [x |-> px + Px(PADDLE_WIDTH) \div 2 + off - v[1], y |-> y - v[2]],
        !.ballVelocity = [x |-> v[1], y |-> v[2]]]

\* the state right after the serve
particleServedState(level, k) ==
    particleStartGameUpdater(
        [particleInitialState(level) EXCEPT !.score = (level - 1) * levelPoints], k)

ParticleTickStates ==
    { particleServedState(level, k) : level \in ParticleTickLevels, k \in 0..(RandSteps - 1) }
    \cup
    { st \in { particleTickState(level, px, off, y, v) :
                   level \in ParticleTickLevels, px \in TickPaddleXs,
                   off \in TickOffsets, y \in TickYs,
                   v \in UNION {ParticleTickVelocities(l) : l \in ParticleTickLevels} } :
        /\ <<st.ballVelocity.x, st.ballVelocity.y>> \in ParticleTickVelocities(st.level)
        /\ st.ball.x >= Px(BALL_SIZE) \div 2
        /\ st.ball.x <= Px(GAME_WIDTH) - Px(BALL_SIZE) \div 2
        /\ st.ball.y <= Px(GAME_HEIGHT) }

ParticleTickInit ==
    /\ gameState \in ParticleTickStates
    /\ bestScore = 0
    /\ isDragging = FALSE
    /\ levelStartScore = gameState.score
    /\ budget = TickBudget
    /\ keys = [left |-> FALSE, right |-> FALSE]
    /\ collisionCall = NoCall
    \* the game is in play: the effect has requested a frame
    /\ pendingFrames = 1
    /\ animationRefLive = TRUE
    /\ effectDeps = particleLoopDeps(gameState, keys)

ParticleTickNext == particleGameLoop

ParticleTickSpec == ParticleTickInit /\ [][ParticleTickNext]_vars

(***************************************************************************)
(* checkCollision as a function: calls on pairs of rectangles with         *)
(* integer corners and sides.                                              *)
(***************************************************************************)
\* The largest corner coordinate and the longest side of the rectangles.
MaxCoord == 3
MaxSide == 2

Rects == [x : 0..MaxCoord, y : 0..MaxCoord, width : 1..MaxSide, height : 1..MaxSide]

CollisionInit ==
    /\ collisionCall \in [obj1 : Rects, obj2 : Rects, returned : {FALSE}, result : {FALSE}]
    /\ gameState = createInitialState(1)
    /\ bestScore = 0
    /\ isDragging = FALSE
    /\ levelStartScore = 0
    /\ budget = 0
    /\ pendingFrames = 0
    /\ animationRefLive = FALSE
    /\ effectDeps = loopDeps(gameState)
    /\ keys = [left |-> FALSE, right |-> FALSE]

\* checkCollision(obj1, obj2) returns
checkCollisionCall ==
    /\ ~collisionCall.returned
    /\ collisionCall' = [collisionCall EXCEPT
                            !.returned = TRUE,
                            !.result = checkCollision(collisionCall.obj1, collisionCall.obj2)]
    /\ UNCHANGED <<gameState, bestScore, isDragging, levelStartScore, budget, loopVars, keys>>

CollisionNext == checkCollisionCall

CollisionSpec == CollisionInit /\ [][CollisionNext]_vars

(***************************************************************************)
(* Properties                                                              *)
(***************************************************************************)

C2_ScoreIsLevelStartPlusDestroyed ==
    gameState.score = levelStartScore + destroyedPoints(gameState.bricks, 1)

\* a brick destroyed in a level entered by level advance with a carried score
C2_Witness ==
    /\ gameState.level = 2
    /\ levelStartScore > 0
    /\ gameState.score > levelStartScore

\* C3: the step that brings lives to 0 sets gameOver in that same step, and
\* gameOver stays true under every step other than restart.
C3_GameOverAtZeroLivesUntilRestart ==
    [][ /\ (gameState.lives # 0 /\ gameState'.lives = 0) => gameState'.gameOver
        /\ (gameState.gameOver /\ ~restartGame) => gameState'.gameOver ]_vars

\* the game is over and pointer input has moved the paddle to the right edge
C3_Witness ==
    /\ gameState.gameOver
    /\ gameState.lives = 0
    /\ isDragging
    /\ gameState.paddle.x = Px(GAME_WIDTH) - Px(PADDLE_WIDTH)

\* C4: lives is in 0..3, and gameOver is true exactly when lives = 0.
C4_LivesRangeAndGameOver ==
    /\ gameState.lives \in 0..3
    /\ gameState.gameOver <=> (gameState.lives = 0)

\* the last life has been lost
C4_Witness ==
    /\ gameState.lives = 0
    /\ gameState.ball.y > Px(GAME_HEIGHT)

\* C5: gameWon is true if and only if no undestroyed brick remains.
C5_WonIffNoBrickRemains ==
    gameState.gameWon <=> (\A i \in 1..Len(gameState.bricks) : gameState.bricks[i].destroyed)

\* the level has been won by destroying its last brick
C5_Witness ==
    /\ gameState.gameWon
    /\ budget < MaxTicks
    /\ \A i \in 1..Len(gameState.bricks) : gameState.bricks[i].destroyed

\* C6: gameOver and gameWon are never both true.
C6_NotOverAndWon == ~(gameState.gameOver /\ gameState.gameWon)

\* the game was lost with a single brick left standing
C6_Witness ==
    /\ gameState.gameOver
    /\ Cardinality(remainingBricks(gameState)) = 1

\* C7: the ball's x lies in [BALL_SIZE/2, GAME_WIDTH - BALL_SIZE/2].
C7_BallXInField ==
    /\ gameState.ball.x >= Px(BALL_SIZE) \div 2
    /\ gameState.ball.x <= Px(GAME_WIDTH) - Px(BALL_SIZE) \div 2

\* the ball has been clamped to the left wall and reflected
C7_Witness ==
    /\ gameState.ball.x = Px(BALL_SIZE) \div 2
    /\ gameState.ballVelocity.x > 0

\* C8: a tick decrements lives by one exactly when it is active and moves the
\* ball's y beyond GAME_HEIGHT, and changes lives in no other case; no state
\* has gameStarted true, gameOver false and the ball's y beyond GAME_HEIGHT.
C8_LifeLostExactlyWhenBallFalls ==
    /\ [][ LET active == /\ gameState.gameStarted /\ ~gameState.paused
                          /\ ~gameState.gameOver /\ ~gameState.gameWon
                fell == active /\ gameState.ball.y + gameState.ballVelocity.y > Px(GAME_HEIGHT)
            IN  \/ gameState'.lives = IF fell THEN gameState.lives - 1 ELSE gameState.lives
                \/ ~gameLoop ]_vars
    /\ [](~(/\ gameState.gameStarted
            /\ ~gameState.gameOver
            /\ gameState.ball.y > Px(GAME_HEIGHT)))

\* a life was lost with lives left: the ball is back at the serve position
C8_Witness ==
    /\ gameState.lives = INITIAL_LIVES - 1
    /\ ~gameState.gameStarted
    /\ budget < MaxTicks

\* C9 (as claimed): once lives is 0 and gameOver is true, every step other than
\* restart leaves the ball, the paddle and the bricks unchanged.
C9_FrozenAfterGameOver ==
    [][ (gameState.gameOver /\ gameState.lives = 0 /\ ~restartGame)
        => /\ gameState'.ball = gameState.ball
           /\ gameState'.paddle = gameState.paddle
           /\ gameState'.bricks = gameState.bricks ]_vars

\* C10: restart sets bestScore to max(bestScore, score) and replaces the game
\* state by the fresh level-1 state.
C10_RestartGivesFreshLevelOne ==
    [][ (budget' = ReplayTicks /\ restartGame) =>
          /\ bestScore' = Max(bestScore, gameState.score)
          /\ gameState'.score = 0
          /\ gameState'.lives = 3
          /\ gameState'.level = 1
          /\ Len(gameState'.bricks) = BRICK_ROWS * BRICK_COLS
          /\ \A i \in 1..Len(gameState'.bricks) : ~gameState'.bricks[i].destroyed
          /\ gameState'.ball = [x |-> Px(160), y |-> Px(420)]
          /\ gameState'.paddle = [x |-> Px(125), y |-> Px(440)]
          /\ gameState'.ballVelocity = [x |-> 0, y |-> 0]
          /\ ~gameState'.gameStarted
          /\ ~gameState'.paused
          /\ ~gameState'.gameOver
          /\ ~gameState'.gameWon ]_vars

\* a restart has recorded a best score and left the fresh level-1 state
C10_Witness ==
    /\ bestScore > 0
    /\ gameState = createInitialState(1)

\* C11: level advance is taken only while gameWon is true; it sets bestScore
\* to max(bestScore, score) and produces the fresh state of the next level with
\* the score carried over: level + 1, lives 3, every brick undestroyed, ball and
\* paddle at their initial positions, zero velocity, all four flags false.
C11_NextLevelCarriesScore ==
    [][ nextLevel =>
          /\ gameState.gameWon
          /\ bestScore' = Max(bestScore, gameState.score)
          /\ gameState'.level = gameState.level + 1
          /\ gameState'.score = gameState.score
          /\ gameState'.lives = 3
          /\ Len(gameState'.bricks) = BRICK_ROWS * BRICK_COLS
          /\ \A i \in 1..Len(gameState'.bricks) : ~gameState'.bricks[i].destroyed
          /\ gameState'.ball = [x |-> Px(160), y |-> Px(420)]
          /\ gameState'.paddle = [x |-> Px(125), y |-> Px(440)]
          /\ gameState'.ballVelocity = [x |-> 0, y |-> 0]
          /\ ~gameState'.gameStarted
          /\ ~gameState'.paused
          /\ ~gameState'.gameOver
          /\ ~gameState'.gameWon ]_vars

\* level 2 has just been entered with the score of level 1, now the best score
C11_Witness ==
    /\ gameState.level = 2
    /\ gameState.score > 0
    /\ bestScore = gameState.score
    /\ gameState.lives = 3
    /\ ~gameState.gameStarted
    /\ \A i \in 1..Len(gameState.bricks) : ~gameState.bricks[i].destroyed

\* C13: togglePause flips paused and leaves every other field of the game
\* state and bestScore unchanged; toggling once more gives back the prior state.
C13_TogglePauseFlipsOnlyPaused ==
    [][ togglePause =>
          /\ gameState'.paused = ~gameState.paused
          /\ \A f \in DOMAIN gameState \ {"paused"} : gameState'[f] = gameState[f]
          /\ DOMAIN gameState' = DOMAIN gameState
          /\ bestScore' = bestScore
          /\ togglePauseUpdater(gameState') = gameState ]_vars

\* the game is paused with the ball in flight and bricks destroyed
C13_Witness ==
    /\ gameState.paused
    /\ gameState.gameStarted
    /\ gameState.score > 0
    /\ gameState.ballVelocity # [x |-> 0, y |-> 0]

\* C14 (as claimed): a serve from a state awaiting it sets gameStarted and
\* gives the ball a vertical velocity of the level's magnitude directed
\* downward (positive y), with a horizontal component of at most 1 pixel.
C14_ServeDownward ==
    [][ (awaitingServe(gameState) /\ startGame) =>
          /\ gameState'.gameStarted
          /\ gameState'.ballVelocity.y = Px(3) + (gameState.level * Scale) \div 2
          /\ Abs(gameState'.ballVelocity.x) <= Px(1) ]_vars

\* C14 (amended): a serve from a state awaiting it sets gameStarted and gives
\* the ball a vertical velocity of the level's magnitude directed upward
\* (negative y, toward the bricks), with a horizontal component of at most
\* 1 pixel.
C14_ServeUpward ==
    [][ (awaitingServe(gameState) /\ startGame) =>
          /\ gameState'.gameStarted
          /\ gameState'.ballVelocity.y = -(Px(3) + (gameState.level * Scale) \div 2)
          /\ Abs(gameState'.ballVelocity.x) <= Px(1) ]_vars

\* the ball has just been served on level 2
C14_Witness ==
    /\ gameState.level = 2
    /\ gameState.gameStarted
    /\ gameState.ball = [x |-> Px(160), y |-> Px(420)]
    /\ gameState.ballVelocity.y = -Px(4)

\* C16: a tick that moves the ball below the bottom edge with more than one
\* life left puts the ball back at the serve position with velocity (0,0),
\* clears gameStarted and leaves gameOver false, while bricks, score, level
\* and paddle keep the values of the earlier steps of the tick; a tick in a
\* state awaiting the serve changes nothing, and gameStarted becomes true
\* only by a serve.
C16_BallLossResetsForServe ==
    [][ /\ ( /\ ~inactive(gameState)
             /\ gameState.lives > 1
             /\ gameState.ball.y + gameState.ballVelocity.y > Px(GAME_HEIGHT) )
           => \/ LET mid == bricksStep(paddleStep(wallTop(wallX(moveBall(gameState)))))
                 IN  /\ gameState'.ball = [x |-> Px(GAME_WIDTH) \div 2,
                                           y |-> Px(GAME_HEIGHT) - Px(60)]
                     /\ gameState'.ballVelocity = [x |-> 0, y |-> 0]
                     /\ ~gameState'.gameStarted
                     /\ ~gameState'.gameOver
                     /\ gameState'.lives = gameState.lives - 1
                     /\ gameState'.bricks = mid.bricks
                     /\ gameState'.score = mid.score
                     /\ gameState'.level = gameState.level
                     /\ gameState'.paddle = gameState.paddle
              \/ ~gameLoop
        /\ (~gameState.gameStarted /\ gameState' # gameState /\ gameState'.gameStarted)
           => \E k \in 0..(RandSteps - 1) : gameState' = startGameUpdater(gameState, k)
        /\ (~gameState.gameStarted /\ gameState' # gameState /\ ~gameState'.gameStarted)
           => ~gameLoop ]_vars

\* a ball was lost with lives left after bricks were destroyed: the ball
\* waits at the serve position and the score is kept
C16_Witness ==
    /\ gameState.lives = INITIAL_LIVES - 1
    /\ ~gameState.gameStarted
    /\ ~gameState.gameOver
    /\ gameState.score > 0
    /\ gameState.ball = [x |-> Px(GAME_WIDTH) \div 2, y |-> Px(GAME_HEIGHT) - Px(60)]
    /\ gameState.ballVelocity = [x |-> 0, y |-> 0]

\* C20: at most one frame callback is pending at any time, and a pending
\* callback is the one animationRef.current names, so no second chain of
\* ticks runs beside it, whatever the order of frame callbacks, effect
\* cleanups and re-runs, serves, pauses, restarts and level advances.
C20_AtMostOneFramePending ==
    /\ pendingFrames \in {0, 1}
    /\ (pendingFrames = 1) => animationRefLive

\* the game was paused in play and the effect has not yet cancelled the
\* frame requested by the last tick
C20_Witness ==
    /\ gameState.paused
    /\ budget < MaxTicks
    /\ pendingFrames = 1
    /\ loopDeps(gameState) # effectDeps

\* C15: in a tick in which the paddle bounce fires with the ball's x equal to
\* the paddle's centre x, the velocity at the end of the tick has x = 0 and
\* y < 0, whatever the incoming velocity.
C15_CentreHitBouncesStraightUp ==
    [][ LET mid == wallTop(wallX(moveBall(gameState)))
        IN  ( /\ ~inactive(gameState)
              /\ paddleCollision(mid)
              /\ mid.ballVelocity.y > 0
              /\ mid.ball.x = mid.paddle.x + Px(PADDLE_WIDTH) \div 2 )
            => \/ /\ gameState'.ballVelocity.x = 0
                  /\ gameState'.ballVelocity.y < 0
               \/ ~gameLoop ]_vars

\* a ball that came in at a slant has hit the paddle centre and leaves
\* straight up
C15_Witness ==
    /\ budget = TickBudget - 1
    /\ gameState.ball.x = gameState.paddle.x + Px(PADDLE_WIDTH) \div 2
    /\ gameState.ball.y > Px(434)
    /\ gameState.ballVelocity = [x |-> 0, y |-> -baseSpeed(gameState.level)]

\* C17: in an active tick the paddle step changes the velocity only when
\* the ball rectangle overlaps the paddle rectangle and velocity.y > 0 (in
\* every other tick the result is that of the tick without the paddle step),
\* and when it fires the velocity.y that results is negative, so that the
\* bounce does not fire on the next tick.
C17_BounceOnlyDownwardAndLeavesUpward ==
    [][ ~inactive(gameState) =>
          LET mid == wallTop(wallX(moveBall(gameState)))
              fires == paddleCollision(mid) /\ mid.ballVelocity.y > 0
          IN  \/ /\ ~fires => gameState' = lossCheck(winCheck(bricksStep(mid)))
                 /\ fires => /\ gameState'.ballVelocity.y < 0
                             /\ paddleStep(wallTop(wallX(moveBall(gameState')))).ballVelocity
                                  = wallTop(wallX(moveBall(gameState'))).ballVelocity
              \/ ~gameLoop ]_vars

\* a ball bounced by the paddle low on its centre still overlaps it after the
\* next tick and keeps moving straight up
C17_Witness ==
    /\ budget = 0
    /\ paddleCollision(gameState)
    /\ gameState.ballVelocity = [x |-> 0, y |-> -baseSpeed(gameState.level)]
    /\ gameState.ball.x = gameState.paddle.x + Px(PADDLE_WIDTH) \div 2
    /\ gameState.ball.y = Px(455) - baseSpeed(gameState.level)

\* C18 (as claimed): whenever the paddle bounce fires, the ball's x is at
\* most PADDLE_WIDTH/2 away from the paddle's centre x (hitPos in [-1, 1]).
C18_HitPosWithinUnit ==
    [][ ( /\ ~inactive(gameState)
          /\ gameState.ball.y > Px(400)
          /\ LET mid == wallTop(wallX(moveBall(gameState)))
             IN  /\ paddleCollision(mid)
                 /\ mid.ballVelocity.y > 0
                 /\ Abs(mid.ball.x - (mid.paddle.x + Px(PADDLE_WIDTH) \div 2))
                       > Px(PADDLE_WIDTH) \div 2 )
        => ~gameLoop ]_vars

\* C19 (as claimed): an active tick leaves the state it was given as it was
\* (ball, velocity, paddle, brick flags), so that applying the step once more
\* to that state gives the same next state.
C19_TickLeavesPrevStateUnmodified ==
    ~inactive(gameState) =>
        /\ prevStateAfter(gameState) = gameState
        /\ gameLoopUpdater(prevStateAfter(gameState)) = gameLoopUpdater(gameState)

C29_AwaitingServeBallAtRest ==
    awaitingServe(gameState) =>
        /\ gameState.ballVelocity = [x |-> 0, y |-> 0]
        /\ gameState.ball = [x |-> Px(GAME_WIDTH) \div 2, y |-> Px(GAME_HEIGHT) - Px(60)]

\* a ball served at a slant was lost after the paddle was moved away: the
\* game awaits the next serve with a life less
C29_Witness ==
    /\ awaitingServe(gameState)
    /\ gameState.lives = INITIAL_LIVES - 1
    /\ gameState.paddle.x # Px(GAME_WIDTH) \div 2 - Px(PADDLE_WIDTH) \div 2
    /\ budget < MaxTicks
    /\ gameState.ball.y = Px(GAME_HEIGHT) - Px(60)

\* C27: between one restart or level advance and the next, a brick's
\* destroyed flag never goes from true back to false, and no step changes the
\* number of bricks or a brick's id, position or point value.
C27_BricksDestroyedForGood ==
    [][ \/ gameState'.bricks = gameState.bricks
        \/ /\ Len(gameState'.bricks) = Len(gameState.bricks)
           /\ \A i \in 1..Len(gameState.bricks) :
                 /\ gameState'.bricks[i].id = gameState.bricks[i].id
                 /\ gameState'.bricks[i].x = gameState.bricks[i].x
                 /\ gameState'.bricks[i].y = gameState.bricks[i].y
                 /\ gameState'.bricks[i].points = gameState.bricks[i].points
                 /\ gameState.bricks[i].destroyed => gameState'.bricks[i].destroyed
        \/ restartGame
        \/ nextLevel ]_vars

\* bricks of the full level were destroyed in different ticks and stay
\* destroyed while the game goes on
C27_Witness ==
    /\ gameState.gameStarted
    /\ levelStartScore = 0
    /\ gameState.level = 1
    /\ Cardinality(remainingBricks(gameState)) \in 40..(NumBricks - 4)

\* the standing bricks the ball rectangle overlaps in state st
overlappedBricks(st) ==
    {i \in remainingBricks(st) : checkCollision(ballRect(st.ball), brickRect(st.bricks[i]))}

\* brick i of st is hit on a side: |dx| > |dy| for the ball centre minus the
\* brick centre
sideHit(st, i) ==
    Abs(st.ball.x - (st.bricks[i].x + Px(BRICK_WIDTH) \div 2))
        > Abs(st.ball.y - (st.bricks[i].y + Px(BRICK_HEIGHT) \div 2))

\* C22: in a tick in which the ball rectangle overlaps exactly one standing
\* brick, the brick step negates velocity.x if |dx| > |dy| and velocity.y
\* otherwise (ties included) and leaves the other component as it was.
C22_OneBrickFlipsOneAxis ==
    [][ ~inactive(gameState) =>
          LET mid == paddleStep(wallTop(wallX(moveBall(gameState))))
              hit == overlappedBricks(mid)
          IN  Cardinality(hit) = 1 =>
                LET i == CHOOSE j \in hit : TRUE
                    flipped == IF sideHit(mid, i)
                               THEN [x |-> -mid.ballVelocity.x, y |-> mid.ballVelocity.y]
                               ELSE [x |-> mid.ballVelocity.x, y |-> -mid.ballVelocity.y]
                IN  \/ /\ bricksStep(mid).ballVelocity = flipped
                       /\ gameState'.ballVelocity = flipped
                    \/ ~gameLoop ]_vars

\* a ball moving up and to the right has met the side of the one brick left
\* standing in the bottom row and moves on up and to the left
C22_Witness ==
    /\ budget = TickBudget - 1
    /\ Cardinality(remainingBricks(gameState)) = 0
    /\ gameState.ballVelocity.x < 0
    /\ gameState.ballVelocity.y < 0
    /\ gameState.ball.x < brickAt(65).x
    /\ gameState.ball.y > brickAt(65).y + Px(BRICK_HEIGHT)

\* C23: in a tick in which the ball rectangle overlaps k >= 2 standing
\* bricks, all k are destroyed in that tick, the score rises by the sum of
\* their points, and the velocity is reflected once per brick, so that an
\* even number of reflections of a component leaves it as it was.
C23_EveryOverlappedBrickCounts ==
    [][ ~inactive(gameState) =>
          LET mid == paddleStep(wallTop(wallX(moveBall(gameState))))
              hit == overlappedBricks(mid)
              sides == Cardinality({i \in hit : sideHit(mid, i)})
              others == Cardinality(hit) - sides
              points == destroyedPoints(
                            [i \in 1..Len(mid.bricks) |->
                                [mid.bricks[i] EXCEPT !.destroyed = (i \in hit)]], 1)
          IN  Cardinality(hit) >= 2 =>
                \/ /\ \A i \in hit : gameState'.bricks[i].destroyed
                   /\ gameState'.score = gameState.score + points
                   /\ gameState'.ballVelocity.x =
                          IF sides % 2 = 0 THEN mid.ballVelocity.x ELSE -mid.ballVelocity.x
                   /\ gameState'.ballVelocity.y =
                          IF others % 2 = 0 THEN mid.ballVelocity.y ELSE -mid.ballVelocity.y
                \/ ~gameLoop ]_vars

\* a ball moving up at a slant has met two bricks of the full bottom row at
\* their common corner: both are destroyed and, each reflecting x, the ball
\* moves on as before
C23_Witness ==
    /\ budget = TickBudget - 1
    /\ Cardinality(remainingBricks(gameState)) = NumBricks - 2
    /\ gameState.bricks[65].destroyed
    /\ gameState.bricks[66].destroyed
    /\ gameState.ballVelocity.x > 0
    /\ gameState.ballVelocity.y < 0

\* the unit cells inside both rectangles
commonCells(a, b) ==
    ((a.x)..(a.x + a.width - 1) \cap (b.x)..(b.x + b.width - 1))
        \X ((a.y)..(a.y + a.height - 1) \cap (b.y)..(b.y + b.height - 1))

\* the rectangles meet, but only along an edge or at a corner
touching(a, b) ==
    /\ a.x <= b.x + b.width /\ b.x <= a.x + a.width
    /\ a.y <= b.y + b.height /\ b.y <= a.y + a.height
    /\ \/ a.x = b.x + b.width \/ b.x = a.x + a.width
       \/ a.y = b.y + b.height \/ b.y = a.y + a.height

\* C28: checkCollision(a, b) is true exactly when a.x < b.x + b.width,
\* a.x + a.width > b.x, a.y < b.y + b.height and a.y + a.height > b.y, that
\* is when the rectangles have a cell in common; it gives the same for
\* (b, a), and false for rectangles that share only an edge or a corner.
C28_CollisionIsStrictOverlap ==
    collisionCall.returned =>
        LET a == collisionCall.obj1
            b == collisionCall.obj2
        IN  /\ collisionCall.result = ( /\ a.x < b.x + b.width
                                        /\ a.x + a.width > b.x
                                        /\ a.y < b.y + b.height
                                        /\ a.y + a.height > b.y )
            /\ collisionCall.result = (commonCells(a, b) # {})
            /\ collisionCall.result = checkCollision(b, a)
            /\ touching(a, b) => collisionCall.result = FALSE

\* the call has returned false for two rectangles that share one corner
C28_Witness ==
    /\ collisionCall.returned
    /\ collisionCall.result = FALSE
    /\ collisionCall.obj1.x + collisionCall.obj1.width = collisionCall.obj2.x
    /\ collisionCall.obj1.y + collisionCall.obj1.height = collisionCall.obj2.y

\* C30 (as claimed): in the particle variant paused is true only while
\* gameStarted is true and gameOver and gameWon are false, so that a serve
\* leaves a state in which the next tick is active.
C30_PausedOnlyInPlay ==
    gameState.paused =>
        gameState.gameStarted /\ ~gameState.gameOver /\ ~gameState.gameWon

\* the state of an active tick of the particle variant when it reaches the
\* speed normalization
beforeAdjust(st, k) ==
    updateParticles(particleBricksStep(particlePaddleStep(
        wallTop(wallX(moveBall(particleKeyMove(st, k)))))))

\* C25: in the particle variant every active tick starts, and reaches the
\* speed normalization, with a ball velocity other than (0,0), so that
\* adjustVelocity does not divide by a zero speed, and in every state the
\* ball's position and velocity are numbers.
C25_TickIsTotal ==
    /\ gameState.ball.x \in Int /\ gameState.ball.y \in Int
    /\ gameState.ballVelocity.x \in Int /\ gameState.ballVelocity.y \in Int
    /\ ~inactive(gameState) =>
          /\ gameState.ballVelocity # [x |-> 0, y |-> 0]
          /\ beforeAdjust(gameState, effectDeps.keys).ballVelocity # [x |-> 0, y |-> 0]

\* the paddle has bounced the ball with baseSpeed, below minSpeed, and the
\* normalization has divided by that speed
C25_Witness ==
    /\ ~inactive(gameState)
    /\ budget < ParticleTicks
    /\ Len(gameState.particles) = 6
    /\ gameState.ballVelocity.y < 0
    /\ gameState.ballVelocity.x # 0
    /\ gameState.ball.y > Px(400)

\* the error, in units, that rounding the two components of a velocity to
\* units can leave in its speed
RoundingSlack == 1

\* the square of the speed of velocity v
speedSquared(v) == v.x * v.x + v.y * v.y

\* v and w point the same way, as far as components rounded to units can tell
sameDirection(v, w) ==
    /\ v.x * w.x + v.y * w.y > 0
    /\ (v.x * w.y - v.y * w.x) * (v.x * w.y - v.y * w.x)
           <= RoundingSlack * RoundingSlack * speedSquared(v)

\* C24 (as claimed): in the particle variant, after every active tick that
\* does not end in a ball loss, the ball's speed lies within
\* [minSpeed, maxSpeed], minSpeed = 2.0 + 0.3 * level and maxSpeed = 5.0, at
\* every level, and the velocity points the way it did before the
\* normalization.
C24_SpeedWithinBand ==
    [][ ~inactive(gameState) =>
          LET pre == beforeAdjust(gameState, effectDeps.keys)
              low == minSpeed(gameState.level) - RoundingSlack
              high == maxSpeed + RoundingSlack
          IN  \/ pre.ball.y > Px(GAME_HEIGHT)
              \/ /\ speedSquared(gameState'.ballVelocity) >= low * low
                 /\ speedSquared(gameState'.ballVelocity) <= high * high
                 /\ sameDirection(pre.ballVelocity, gameState'.ballVelocity)
              \/ ~particleGameLoop ]_vars

\* the fields of the game other than the particles
gameplay(st) ==
    [ball |-> st.ball, ballVelocity |-> st.ballVelocity, paddle |-> st.paddle,
     bricks |-> st.bricks, score |-> st.score, lives |-> st.lives, level |-> st.level,
     gameStarted |-> st.gameStarted, gameOver |-> st.gameOver, gameWon |-> st.gameWon,
     paused |-> st.paused]

\* the particle list a second run holds in place of the first run's: old
\* particles and new (no list of the first run is this one: none of its
\* particles has reached the end of its life)
OtherParticles ==
    { <<[life |-> 1], [life |-> PARTICLE_LIFE], [life |-> 2]>> }

\* C26: In the particle variant the particles have no effect on the game:
\* whenever a run takes a step (an active tick, a pause toggle, a paddle move,
\* a serve, a level advance), a second run in the same state but for its
\* particle list, given the same operation with the same keys, pointer
\* position or random number, ends with the same ball, velocity, paddle,
\* bricks, score, lives, level and flags.  (A restart builds the state anew
\* from constants; the other steps leave the game state alone.)  By induction
\* two runs that differ only in their particles agree on these fields after
\* every operation.
C26_ParticlesHaveNoGameplayEffect ==
    [][ LET tick == budget' = budget - 1
            changed == budget' = budget /\ gameState' # gameState
            advanced == nextLevelOffered(gameState) /\ gameState'.level = gameState.level + 1
        IN  (tick \/ changed \/ advanced) =>
            \A other \in OtherParticles :
                LET twin == [gameState EXCEPT !.particles = other]
                IN  /\ tick =>
                           gameplay(particleGameLoopUpdater(twin, effectDeps.keys, effectDeps.level))
                               = gameplay(gameState')
                    /\ changed =>
                           /\ (gameState' = togglePauseUpdater(gameState)) =>
                                  gameplay(togglePauseUpdater(twin)) = gameplay(gameState')
                           /\ \A px \in PointerXs :
                                  (gameState' = movePaddle(gameState, Px(px))) =>
                                      gameplay(movePaddle(twin, Px(px))) = gameplay(gameState')
                           /\ \A k \in 0..(RandSteps - 1) :
                                  (awaitingServe(gameState)
                                       /\ gameState' = particleStartGameUpdater(gameState, k)) =>
                                      /\ awaitingServe(twin)
                                      /\ gameplay(particleStartGameUpdater(twin, k))
                                             = gameplay(gameState')
                    /\ advanced =>
                           /\ nextLevelOffered(twin)
                           /\ gameplay([particleInitialState(twin.level + 1)
                                            EXCEPT !.score = twin.score])
                                  = gameplay(gameState')
      ]_vars

\* a run still in play holds particles made by a collision and aged by a
\* later tick
C26_Witness ==
    /\ inPlay(gameState)
    /\ Len(gameState.particles) > 0
    /\ gameState.particles[1].life < PARTICLE_LIFE - 1

\* C21: Whenever the game is out of active play (not started, paused, over
\* or won), eventually no frame callback is pending, unless play resumes
\* first: the frame the callback requested for itself is cancelled by the
\* cleanup of the effect.  And while the game stays out of play with no
\* callback pending, none is requested.
C21_LoopStopsOutOfPlay ==
    /\ (~inPlay(gameState) /\ pendingFrames > 0) ~> (pendingFrames = 0 \/ inPlay(gameState))
    /\ [][ (pendingFrames = 0 /\ ~inPlay(gameState')) => pendingFrames' = 0 ]_vars

\* the game has been paused after ticks of play, each of which requested the
\* next frame, and the effect has run since: its cleanup has cancelled the
\* pending callback
C21_Witness ==
    /\ gameState.paused
    /\ gameState.gameStarted
    /\ budget < MaxTicks
    /\ loopDeps(gameState) = effectDeps
    /\ pendingFrames = 0
    /\ ~animationRefLive

=============================================================================
